---- MODULE Spec2Model ----
(***************************************************************************)
(* Ticket registration and check-in of the event platform:                 *)
(*   backend/app/routers/attendees.py   register_attendee, checkin_attendee *)
(*   backend/app/utils/supabase_client.py  the datastore / storage wrapper  *)
(*   backend/app/utils/qr_generator.py  ticket code generation              *)
(*                                                                         *)
(* Every call a handler makes to the datastore or to object storage is one *)
(* step: requests are served by independent workers that share only the    *)
(* datastore and the storage bucket, so their calls interleave freely.     *)
(* Prices                                                                  *)
(* are whole currency units (the code's own tiers are 15.00 and 18.00 and  *)
(* the surcharge 1.00); IEEE rounding of fractional prices is not          *)
(* modelled.  The guests table is never written by any router and is       *)
(* modelled as empty.                                                      *)
(***************************************************************************)
EXTENDS Integers, Sequences, FiniteSets, TLC

\* ------------------------------------------------------------------ bounds
MaxQty == 2          \* largest ticket_quantity a request of the model asks for
NumCheckin == 2      \* number of check-in requests
MaxShots == 1        \* number of screenshot uploads
MaxTiers == 2        \* largest number of rows of table ticket_pricing
MaxSold == 2         \* most tickets one user has sold before a leaderboard request
MaxEdits == 2        \* number of tier operations next to a registration
NumReview == 2       \* number of approve / reject requests

\* ------------------------------------------------------- program constants
ZelleSurcharge == 1  \* "Add $1 for Zelle payments"

\* AttendeeBase.ticket_quantity: Field(ge=1, le=20) and validate_ticket_quantity
MinTickets == 1
MaxTickets == 20
\* a check that lets one ticket too many through
validate_ticket_quantity_UpTo21(v) == v >= MinTickets /\ v <= MaxTickets + 1

validate_ticket_quantity(v) == v >= MinTickets /\ v <= MaxTickets

RegReqs == {1, 2}
CheckinReqs == 1 .. NumCheckin
Quantities == 1 .. MaxQty
InvalidQuantities == {MinTickets - 1, MaxTickets + 1}
PaymentModes == {"cash", "zelle"}
FoodOptions == {"with_food", "without_food"}
Events == {"e1", "e2"}

\* events.select("id").limit(1): the single event registrations go to
DefaultEvent == "e1"

NoTier == [id |-> 0, event_id |-> "", quantity_from |-> 0, quantity_to |-> 0,
           price_per_ticket |-> 0, food_option |-> "", is_active |-> FALSE]

NoCode == <<0, 0>>

\* "qr_code_url": None
NoUrl == [folder |-> "", file |-> NoCode]

\* users.id; no row of table users has id NoUser
UserIds == {1, 2, 3}
NoUser == 0

VARIABLES
    ticket_pricing,     \* table ticket_pricing: set of tier rows
    attendees,          \* table attendees: set of ticket rows
    bucket,             \* storage bucket "qr-codes": set of object paths
    clock,              \* datetime.utcnow(), advanced by every check-in write
    regPc,              \* register request -> position in register_attendee
    attendee,           \* register request -> its AttendeeCreate payload
    tier_data,          \* register request -> the tier the pricing loop broke on
    price_per_ticket,   \* register request -> price_per_ticket of the pricing loop
    total_price,        \* register request -> total_price
    qr_codes_data,      \* register request -> codes issued so far
    attendee_records,   \* register request -> rows prepared for insertion
    created_attendees,  \* register request -> ids of the rows inserted
    regIdx,             \* register request -> index of a compensation loop
    regCalls,           \* register request -> compensating calls made, in order
    regEmail,           \* register request -> outcome of the registration email
    regResponse,        \* register request -> [status, detail] once returned
    summary_data,       \* register request -> the AttendeeResponse returned
    ciPc,               \* check-in request -> position in checkin_attendee
    qr_id,              \* check-in request -> path parameter qr_id
    ciResponse,         \* check-in request -> CheckInResponse / HTTP error
    background_tasks,   \* check-in request -> confirmation e-mail scheduled
    shotsLeft,          \* screenshot uploads still to come
    tierResponse,       \* status of the last pricing-tier operation
    column_defaults,    \* table ticket_pricing: defaults of food_option, is_active
    users,              \* table users: user id -> [role, team_role]
    current_user,       \* the user of the last leaderboard request
    leaderboard_data,   \* the ranked list the last leaderboard request built
    checkin_confirmation, \* check-in request -> outcome of its confirmation e-mail
    editsLeft,          \* tier operations still to come next to a registration
    statsPc,            \* position of the statistics request in get_event_stats
    stats,              \* the counts get_event_stats has read, then its result
    volunteer_applications, \* table volunteer_applications: id -> [status, email]
    revPc,              \* review request -> position in approve / reject
    application,        \* review request -> [kind, id] of the application it read
    revResponse         \* review request -> HTTP status once returned

vars == <<ticket_pricing, attendees, bucket, clock, regPc, attendee, tier_data,
          price_per_ticket, total_price, qr_codes_data, attendee_records,
          created_attendees, regIdx, regCalls, regEmail, regResponse,
          summary_data, ciPc, qr_id, ciResponse, background_tasks, shotsLeft,
          tierResponse, column_defaults, users, current_user, leaderboard_data,
          checkin_confirmation, editsLeft, statsPc, stats,
          volunteer_applications, revPc, application, revResponse>>

regVars == <<regPc, attendee, tier_data, price_per_ticket, total_price,
             qr_codes_data, attendee_records, created_attendees, regIdx,
             regCalls, regEmail, regResponse, summary_data>>

tierVars == <<tierResponse, column_defaults>>

boardVars == <<users, current_user, leaderboard_data>>

mailVars == <<checkin_confirmation>>

adminVars == <<editsLeft>>

statsVars == <<statsPc, stats>>

appVars == <<volunteer_applications, revPc, application, revResponse>>

ciVars == <<ciPc, qr_id, ciResponse, background_tasks>>

\* ----------------------------------------------------------------- helpers
\* qr_generator.generate_qr_code_id: uuid4, a code no other ticket has
generate_qr_code_id(r, ticket_num) == <<r, ticket_num>>

\* upload_qr_code: file_path = f"qr_codes/{qr_code_id}.png"
UploadPath(qr_code_id) == [folder |-> "qr_codes", file |-> qr_code_id]

\* delete_qr_code: file_path = f"{qr_code_id}.png"
DeletePath(qr_code_id) == [folder |-> "", file |-> qr_code_id]

\* ---------------------------------------------------------------- pricing
\* the query without its is_active filter
PricingQuery_AnyActive(event_id, food_option) ==
    {t \in ticket_pricing : /\ t.event_id = event_id
                            /\ t.food_option = food_option}

\* .eq("event_id", ..).eq("is_active", True).eq("food_option", ..)
PricingQuery(event_id, food_option) ==
    {t \in ticket_pricing : /\ t.event_id = event_id
                            /\ t.is_active
                            /\ t.food_option = food_option}

\* .order("quantity_from"): every order of the rows ascending in quantity_from
OrderedBy(rows) ==
    {s \in [1 .. Cardinality(rows) -> rows] :
        /\ \A i, j \in DOMAIN s : i # j => s[i] # s[j]
        /\ \A i, j \in DOMAIN s : i < j => s[i].quantity_from <= s[j].quantity_from}

\* the condition under which the pricing loop sets the price and breaks
TierMatches(t, quantity, food_option) ==
    /\ quantity >= t.quantity_from
    /\ quantity <= t.quantity_to
    /\ t.food_option = food_option

\* a loop that falls back on the first row when no row contains the quantity
FirstMatch_Fallback(data, quantity, food_option) ==
    LET hits == {i \in DOMAIN data : TierMatches(data[i], quantity, food_option)}
    IN  IF hits = {} THEN data[1]
        ELSE data[CHOOSE i \in hits : \A j \in hits : i <= j]

\* for tier_data in pricing_response.data: ... break
FirstMatch(data, quantity, food_option) ==
    LET hits == {i \in DOMAIN data : TierMatches(data[i], quantity, food_option)}
    IN  IF hits = {} THEN NoTier
        ELSE data[CHOOSE i \in hits : \A j \in hits : i <= j]

\* the surcharge put on the primary payment method instead
Surcharge_OnCash(payment_mode) == IF payment_mode = "cash" THEN ZelleSurcharge ELSE 0

Surcharge(payment_mode) == IF payment_mode = "zelle" THEN ZelleSurcharge ELSE 0

\* price_per_ticket = base_price + 1.00 for zelle, base_price otherwise
TierPrice(t, payment_mode) == t.price_per_ticket + Surcharge(payment_mode)

\* price_per_ticket = base_price (+ 1.00); total_price = price_per_ticket * qty
TotalPrice(t, payment_mode, quantity) ==
    (t.price_per_ticket + Surcharge(payment_mode)) * quantity

\* the row given the price of the whole purchase
PricePerTicket_Total(total, quantity) == total

\* price_per_ticket = total_price / attendee.ticket_quantity
PricePerTicket(total, quantity) == total \div quantity

\* -------------------------------------------------------------------- Init
TierA == [id |-> 1, event_id |-> "e1", quantity_from |-> 1, quantity_to |-> 1,
          price_per_ticket |-> 15, food_option |-> "with_food", is_active |-> TRUE]
TierB == [id |-> 2, event_id |-> "e1", quantity_from |-> 2, quantity_to |-> 20,
          price_per_ticket |-> 12, food_option |-> "with_food", is_active |-> TRUE]
TierC == [id |-> 3, event_id |-> "e1", quantity_from |-> 2, quantity_to |-> 20,
          price_per_ticket |-> 10, food_option |-> "without_food", is_active |-> TRUE]
TierD == [id |-> 4, event_id |-> "e1", quantity_from |-> 1, quantity_to |-> 20,
          price_per_ticket |-> 9, food_option |-> "without_food", is_active |-> FALSE]

\* the tier table the requests run against
DefaultTiers == {TierA, TierB, TierC, TierD}

\* the users the requests run against: three volunteers on a team
DefaultUsers ==
    {[id |-> u, role |-> "volunteer", team_role |-> "Member"] : u \in UserIds}

\* the HTTP status of the tier operation answered last
TierResult(op, status) == status

NoRequest == [ticket_quantity |-> 0, payment_mode |-> "", food_option |-> ""]
NoResponse == [status |-> 0, detail |-> "", ticket_num |-> 0]
NoCheckin == [status |-> 0, success |-> FALSE, message |-> "", checked_in_at |-> 0]

NoSummary == [ticket_quantity |-> 0, total_price |-> 0, qr_code_id |-> NoCode,
              qr_code_url |-> NoUrl, id |-> NoCode]

\* the applications signed up, each with an e-mail address of its own
AppIds == {1, 2}
NoApp == 0
ReviewReqs == 1 .. NumReview
NoApplication == [kind |-> "", id |-> NoApp]

NoStats == [total_registered |-> 0, total_checked_in |-> 0,
            checked_in_percentage |-> 0, total_tickets_sold |-> 0]

\* every handler before its first request, the bucket empty
InitHandlers ==
    /\ bucket = {}
    /\ clock = 1
    /\ regPc = [r \in RegReqs |-> "idle"]
    /\ attendee = [r \in RegReqs |-> NoRequest]
    /\ tier_data = [r \in RegReqs |-> NoTier]
    /\ price_per_ticket = [r \in RegReqs |-> 0]
    /\ total_price = [r \in RegReqs |-> 0]
    /\ qr_codes_data = [r \in RegReqs |-> <<>>]
    /\ attendee_records = [r \in RegReqs |-> <<>>]
    /\ created_attendees = [r \in RegReqs |-> <<>>]
    /\ regIdx = [r \in RegReqs |-> 0]
    /\ regCalls = [r \in RegReqs |-> <<>>]
    /\ regEmail = [r \in RegReqs |-> "none"]
    /\ regResponse = [r \in RegReqs |-> NoResponse]
    /\ summary_data = [r \in RegReqs |-> NoSummary]
    /\ ciPc = [c \in CheckinReqs |-> "idle"]
    /\ qr_id = [c \in CheckinReqs |-> NoCode]
    /\ ciResponse = [c \in CheckinReqs |-> NoCheckin]
    /\ background_tasks = [c \in CheckinReqs |-> FALSE]
    /\ checkin_confirmation = [c \in CheckinReqs |-> "none"]
    /\ editsLeft = MaxEdits
    /\ statsPc = "idle"
    /\ stats = NoStats
    /\ volunteer_applications = [i \in AppIds |-> [status |-> "pending", email |-> i]]
    /\ revPc = [q \in ReviewReqs |-> "idle"]
    /\ application = [q \in ReviewReqs |-> NoApplication]
    /\ revResponse = [q \in ReviewReqs |-> 0]
    /\ shotsLeft = MaxShots
    /\ tierResponse = TierResult("", 0)
    /\ current_user = NoUser
    /\ leaderboard_data = <<>>

\* what the schema can give the columns an insert leaves out
ColumnDefaults == [food_option : FoodOptions, is_active : BOOLEAN]

InitRequests ==
    /\ attendees = {}
    /\ users = DefaultUsers
    /\ column_defaults = [food_option |-> "with_food", is_active |-> TRUE]
    /\ InitHandlers

Init ==
    /\ ticket_pricing = DefaultTiers
    /\ InitRequests

\* ---------------------------------------------------------------- register
\* register_attendee up to the end of the pricing block: one query, one loop
RegisterPricing(r, quantity, payment_mode, food_option) ==
    /\ regPc[r] = "idle"
    /\ validate_ticket_quantity(quantity)
    /\ attendee' = [attendee EXCEPT ![r] =
            [ticket_quantity |-> quantity, payment_mode |-> payment_mode,
             food_option |-> food_option]]
    /\ LET rows == PricingQuery(DefaultEvent, food_option)
       IN  IF rows = {}
           THEN /\ regPc' = [regPc EXCEPT ![r] = "done"]
                /\ regResponse' = [regResponse EXCEPT ![r] =
                        [status |-> 400, detail |-> "No pricing tiers found for this event",
                         ticket_num |-> 0]]
                /\ UNCHANGED <<tier_data, price_per_ticket, total_price>>
           ELSE \E data \in OrderedBy(rows) :
                  LET t == FirstMatch(data, quantity, food_option)
                  IN  IF t = NoTier
                      THEN /\ regPc' = [regPc EXCEPT ![r] = "done"]
                           /\ regResponse' = [regResponse EXCEPT ![r] =
                                  [status |-> 400,
                                   detail |-> "No pricing tier found for the specified quantity",
                                   ticket_num |-> 0]]
                           /\ UNCHANGED <<tier_data, price_per_ticket, total_price>>
                      ELSE /\ regPc' = [regPc EXCEPT ![r] = "prepare"]
                           /\ tier_data' = [tier_data EXCEPT ![r] = t]
                           /\ price_per_ticket' = [price_per_ticket EXCEPT ![r] =
                                  TierPrice(t, payment_mode)]
                           /\ total_price' = [total_price EXCEPT ![r] =
                                  TotalPrice(t, payment_mode, quantity)]
                           /\ UNCHANGED regResponse
    /\ UNCHANGED <<ticket_pricing, tierVars, mailVars, adminVars, appVars, statsVars, boardVars, attendees, bucket, clock, qr_codes_data,
                   attendee_records, created_attendees, regIdx, regCalls,
                   regEmail, summary_data, ciVars, shotsLeft>>

\* current_user.user_id of a register request: request r is made by user r
RequestUser(r) == r

\* a body whose ticket_quantity fails validation never reaches the handler:
\* the framework answers 422
RegisterRejected(r, quantity) ==
    /\ regPc[r] = "idle"
    /\ ~validate_ticket_quantity(quantity)
    /\ attendee' = [attendee EXCEPT ![r] = [NoRequest EXCEPT !.ticket_quantity = quantity]]
    /\ regPc' = [regPc EXCEPT ![r] = "done"]
    /\ regResponse' = [regResponse EXCEPT ![r] =
           [status |-> 422, detail |-> "validation error", ticket_num |-> 0]]
    /\ UNCHANGED <<ticket_pricing, tierVars, mailVars, adminVars, appVars, statsVars, boardVars, attendees, bucket, clock,
                   tier_data, price_per_ticket, total_price, qr_codes_data,
                   attendee_records, created_attendees, regIdx, regCalls,
                   regEmail, summary_data, ciVars, shotsLeft>>

\* a row priced from the tier as the table holds it when the row is prepared
AttendeeData_RereadTier(r, qr_code_id) ==
    LET now == {t \in ticket_pricing : t.id = tier_data[r].id}
        t == IF now = {} THEN tier_data[r] ELSE CHOOSE t \in now : TRUE
    IN  [id |-> qr_code_id,
         qr_code_id |-> qr_code_id,
         payment_mode |-> attendee[r].payment_mode,
         food_option |-> attendee[r].food_option,
         ticket_quantity |-> 1,
         total_price |-> TierPrice(t, attendee[r].payment_mode),
         is_checked_in |-> FALSE,
         checked_in_at |-> 0,
         transaction_screenshot_url |-> FALSE,
         qr_code_url |-> UploadPath(qr_code_id),
         created_by |-> RequestUser(r)]

\* the row Step 1 prepares for one ticket
AttendeeData(r, qr_code_id) ==
    [id |-> qr_code_id,
     qr_code_id |-> qr_code_id,
     payment_mode |-> attendee[r].payment_mode,
     food_option |-> attendee[r].food_option,
     ticket_quantity |-> 1,
     total_price |-> PricePerTicket(total_price[r], attendee[r].ticket_quantity),
     is_checked_in |-> FALSE,
     checked_in_at |-> 0,
     transaction_screenshot_url |-> FALSE,
     qr_code_url |-> UploadPath(qr_code_id),
     created_by |-> RequestUser(r)]

\* Step 1 left after its first iteration
PrepareDone_First(r, ticket_num) == ticket_num >= 1

\* for ticket_num in range(1, attendee.ticket_quantity + 1): the last iteration
PrepareDone(r, ticket_num) == ticket_num = attendee[r].ticket_quantity

\* Step 1, one iteration that succeeds: code generated, image uploaded
PrepareTicket(r) ==
    /\ regPc[r] = "prepare"
    /\ LET ticket_num == Len(qr_codes_data[r]) + 1
           qr_code_id == generate_qr_code_id(r, ticket_num)
       IN  /\ bucket' = bucket \cup {UploadPath(qr_code_id)}
           /\ qr_codes_data' = [qr_codes_data EXCEPT ![r] = Append(@, qr_code_id)]
           /\ attendee_records' = [attendee_records EXCEPT ![r] =
                  Append(@, AttendeeData(r, qr_code_id))]
           /\ regPc' = [regPc EXCEPT ![r] =
                  IF PrepareDone(r, ticket_num) THEN "commit" ELSE "prepare"]
    /\ UNCHANGED <<ticket_pricing, tierVars, mailVars, adminVars, appVars, statsVars, boardVars, attendees, clock, attendee, tier_data,
                   price_per_ticket, total_price, created_attendees, regIdx, regCalls, regEmail, summary_data,
                   regResponse, ciVars, shotsLeft>>

\* a clean-up loop that misses the first code issued
CleanupTargets_SkipFirst(r) ==
    IF qr_codes_data[r] = <<>> THEN <<>> ELSE Tail(qr_codes_data[r])

\* for cleanup_data in qr_codes_data: the codes a clean-up loop deletes
CleanupTargets(r) == qr_codes_data[r]

\* a rollback that deletes the codes but leaves the inserted rows
RollbackTargets_None(r) == <<>>

\* for created_attendee in created_attendees: the rows the rollback deletes
RollbackTargets(r) == created_attendees[r]

\* raise HTTPException(500, "Failed to prepare ticket {ticket_num} of ...")
PrepareFailed(r) ==
    [status |-> 500, detail |-> "Failed to prepare ticket",
     ticket_num |-> Len(qr_codes_data[r]) + 1]

\* raise HTTPException(500, "Failed to create registration records. ...")
CommitFailed ==
    [status |-> 500, detail |-> "Failed to create registration records", ticket_num |-> 0]

\* Step 1, one iteration that fails: create_qr_code raises or upload_qr_code
\* returns None; nothing was stored for this ticket.  With no code issued yet
\* the clean-up loop is empty and the request fails at once.
PrepareTicketFails(r) ==
    /\ regPc[r] = "prepare"
    /\ IF Len(CleanupTargets(r)) = 0
       THEN /\ regPc' = [regPc EXCEPT ![r] = "done"]
            /\ regResponse' = [regResponse EXCEPT ![r] = PrepareFailed(r)]
            /\ UNCHANGED regIdx
       ELSE /\ regPc' = [regPc EXCEPT ![r] = "cleanup"]
            /\ regIdx' = [regIdx EXCEPT ![r] = 1]
            /\ UNCHANGED regResponse
    /\ UNCHANGED <<ticket_pricing, tierVars, mailVars, adminVars, appVars, statsVars, boardVars, attendees, bucket, clock, attendee, tier_data,
                   price_per_ticket, total_price, qr_codes_data, attendee_records,
                   created_attendees, regCalls, regEmail, summary_data, ciVars, shotsLeft>>

\* a compensation loop that gives up at the first delete that fails
LoopEnds_OnFailure(i, n, ok) == i = n \/ ~ok

\* a compensation loop ends with its last element: each delete is in a
\* try/except of its own and the clients catch their errors themselves
LoopEnds(i, n, ok) == i = n

\* storage.from_("qr-codes").remove([file_path]); an exception is caught and
\* only logged, the caller ignores the bool returned
delete_qr_code(qr_code_id, ok) ==
    IF ok THEN bucket \ {DeletePath(qr_code_id)} ELSE bucket

\* a delete without the filter on the row id
delete_attendee_All(attendee_id, ok) ==
    IF ok THEN {} ELSE attendees

\* table("attendees").delete().eq("id", attendee_id); failure only logged
delete_attendee(attendee_id, ok) ==
    IF ok THEN {a \in attendees : a.id # attendee_id} ELSE attendees

Call(op, arg) == [op |-> op, arg |-> arg]

\* one iteration of a clean-up loop over the issued codes (after a failed
\* Step 1, or as the second half of the Step 2 rollback); after the last
\* iteration the handler raises the 500
CleanupCode(r, ok) ==
    /\ regPc[r] \in {"cleanup", "rollback_codes"}
    /\ regIdx[r] <= Len(CleanupTargets(r))
    /\ LET qr_code_id == CleanupTargets(r)[regIdx[r]]
           last == LoopEnds(regIdx[r], Len(CleanupTargets(r)), ok)
       IN  /\ bucket' = delete_qr_code(qr_code_id, ok)
           /\ regCalls' = [regCalls EXCEPT ![r] =
                  Append(@, Call("delete_qr_code", qr_code_id))]
           /\ regIdx' = [regIdx EXCEPT ![r] = @ + 1]
           /\ regPc' = [regPc EXCEPT ![r] = IF last THEN "done" ELSE @]
           /\ regResponse' = [regResponse EXCEPT ![r] =
                  IF ~last THEN @
                  ELSE IF regPc[r] = "cleanup" THEN PrepareFailed(r) ELSE CommitFailed]
    /\ UNCHANGED <<ticket_pricing, tierVars, mailVars, adminVars, appVars, statsVars, boardVars, attendees, clock, attendee, tier_data,
                   price_per_ticket, total_price, qr_codes_data, attendee_records,
                   created_attendees, regEmail, summary_data, ciVars, shotsLeft>>

\* Step 2 left after its first insert
CommitDone_First(r, i) == i >= 1

\* for i, attendee_data in enumerate(attendee_records): the last iteration
CommitDone(r, i) == i = Len(attendee_records[r])

\* Step 2, one create_attendee that succeeds
CreateAttendee(r) ==
    /\ regPc[r] = "commit"
    /\ LET i == Len(created_attendees[r]) + 1
           attendee_data == attendee_records[r][i]
       IN  /\ attendees' = attendees \cup {attendee_data}
           /\ created_attendees' = [created_attendees EXCEPT ![r] =
                  Append(@, attendee_data.id)]
           /\ regPc' = [regPc EXCEPT ![r] =
                  IF CommitDone(r, i) THEN "notify" ELSE "commit"]
    /\ UNCHANGED <<ticket_pricing, tierVars, mailVars, adminVars, appVars, statsVars, boardVars, bucket, clock, attendee, tier_data,
                   price_per_ticket, total_price, qr_codes_data, attendee_records, regIdx,
                   regCalls, regEmail, summary_data, regResponse, ciVars, shotsLeft>>

\* Step 2, one create_attendee that raises: the rollback starts with the rows
\* inserted so far, or with the codes when there is none
CreateAttendeeFails(r) ==
    /\ regPc[r] = "commit"
    /\ regPc' = [regPc EXCEPT ![r] =
           IF Len(RollbackTargets(r)) = 0 THEN "rollback_codes" ELSE "rollback_rows"]
    /\ regIdx' = [regIdx EXCEPT ![r] = 1]
    /\ UNCHANGED <<ticket_pricing, tierVars, mailVars, adminVars, appVars, statsVars, boardVars, attendees, bucket, clock, attendee, tier_data,
                   price_per_ticket, total_price, qr_codes_data, attendee_records,
                   created_attendees, regCalls, regEmail, summary_data, regResponse, ciVars,
                   shotsLeft>>

\* one iteration of "Rollback: Delete all created attendees"
RollbackAttendee(r, ok) ==
    /\ regPc[r] = "rollback_rows"
    /\ regIdx[r] <= Len(RollbackTargets(r))
    /\ LET attendee_id == RollbackTargets(r)[regIdx[r]]
           last == LoopEnds(regIdx[r], Len(RollbackTargets(r)), ok)
       IN  /\ attendees' = delete_attendee(attendee_id, ok)
           /\ regCalls' = [regCalls EXCEPT ![r] =
                  Append(@, Call("delete_attendee", attendee_id))]
           /\ regIdx' = [regIdx EXCEPT ![r] = IF last THEN 1 ELSE @ + 1]
           /\ regPc' = [regPc EXCEPT ![r] = IF last THEN "rollback_codes" ELSE @]
    /\ UNCHANGED <<ticket_pricing, tierVars, mailVars, adminVars, appVars, statsVars, boardVars, bucket, clock, attendee, tier_data,
                   price_per_ticket, total_price, qr_codes_data, attendee_records,
                   created_attendees, regEmail, summary_data, regResponse, ciVars, shotsLeft>>

\* a handler that fails the request when the e-mail fails
RegisterReturn_FailOnEmail(ok) ==
    IF ok THEN [status |-> 200, detail |-> "", ticket_num |-> 0]
    ELSE [status |-> 500, detail |-> "Failed to register attendee", ticket_num |-> 0]

\* Step 3: send_registration_email_with_pdf_task logs a False result and
\* catches what the sender raises; the handler goes on to return the summary
RegisterReturn(ok) == [status |-> 200, detail |-> "", ticket_num |-> 0]

\* a summary that keeps the code and the image URL of the first row
SummaryData_FirstRow(r, first_attendee) ==
    [ticket_quantity |-> attendee[r].ticket_quantity,
     total_price |-> total_price[r],
     qr_code_id |-> first_attendee.qr_code_id,
     qr_code_url |-> first_attendee.qr_code_url,
     id |-> first_attendee.id]

\* summary_data = {**first_attendee, "ticket_quantity": .., "total_price": ..,
\*                 "qr_code_id": "", "qr_code_url": None}
SummaryData(r, first_attendee) ==
    [ticket_quantity |-> attendee[r].ticket_quantity,
     total_price |-> total_price[r],
     qr_code_id |-> NoCode,
     qr_code_url |-> NoUrl,
     id |-> first_attendee.id]

\* Step 3 and the return: the e-mail is awaited, its failure only logged, then
\* the summary of the registration is returned
SendRegistrationEmail(r, ok) ==
    /\ regPc[r] = "notify"
    /\ regEmail' = [regEmail EXCEPT ![r] = IF ok THEN "sent" ELSE "failed"]
    /\ regPc' = [regPc EXCEPT ![r] = "done"]
    /\ regResponse' = [regResponse EXCEPT ![r] = RegisterReturn(ok)]
    /\ summary_data' = [summary_data EXCEPT ![r] =
           IF RegisterReturn(ok).status = 200
           THEN SummaryData(r, attendee_records[r][1]) ELSE @]
    /\ UNCHANGED <<ticket_pricing, tierVars, mailVars, adminVars, appVars, statsVars, boardVars, attendees, bucket, clock, attendee, tier_data,
                   price_per_ticket, total_price, qr_codes_data, attendee_records,
                   created_attendees, regIdx, regCalls, ciVars, shotsLeft>>

Register(r) ==
    \/ \E quantity \in Quantities, payment_mode \in PaymentModes,
          food_option \in FoodOptions :
            RegisterPricing(r, quantity, payment_mode, food_option)
    \/ \E quantity \in InvalidQuantities : RegisterRejected(r, quantity)
    \/ PrepareTicket(r)
    \/ PrepareTicketFails(r)
    \/ \E ok \in BOOLEAN : CleanupCode(r, ok)
    \/ CreateAttendee(r)
    \/ CreateAttendeeFails(r)
    \/ \E ok \in BOOLEAN : RollbackAttendee(r, ok)
    \/ \E ok \in BOOLEAN : SendRegistrationEmail(r, ok)

\* ---------------------------------------------------------------- check-in
CodesOf(regs) == {generate_qr_code_id(r, k) : r \in regs, k \in Quantities}

NoAttendee == [id |-> NoCode, qr_code_id |-> NoCode, payment_mode |-> "",
               food_option |-> "", ticket_quantity |-> 0, total_price |-> 0,
               is_checked_in |-> FALSE, checked_in_at |-> 0,
               transaction_screenshot_url |-> FALSE, qr_code_url |-> NoUrl,
               created_by |-> NoUser]

\* a lookup that answers with some ticket when the code matches none
get_attendee_by_qr_id_Any(qr_code_id, ok) ==
    LET data == {a \in attendees : a.qr_code_id = qr_code_id}
    IN  IF ok /\ data # {} THEN CHOOSE a \in data : TRUE
        ELSE IF attendees # {} THEN CHOOSE a \in attendees : TRUE
        ELSE NoAttendee

\* get_attendee_by_qr_id: response.data[0], or None when no row matches (the
\* guests table has none either) or when the query raises
get_attendee_by_qr_id(qr_code_id, ok) ==
    LET data == {a \in attendees : a.qr_code_id = qr_code_id}
    IN  IF ok /\ data # {} THEN CHOOSE a \in data : TRUE ELSE NoAttendee

\* an update that stamps the time but forgets the flag
CheckinData_TimeOnly(a) == [a EXCEPT !.checked_in_at = clock]

\* an update that flips the flag instead of setting it
CheckinData_Toggle(a) ==
    [a EXCEPT !.is_checked_in = ~a.is_checked_in, !.checked_in_at = clock]

\* checkin_data = {"is_checked_in": True, "checked_in_at": utcnow()}
CheckinData(a) == [a EXCEPT !.is_checked_in = TRUE, !.checked_in_at = clock]

\* table("attendees").update(checkin_data).eq("qr_code_id", qr_code_id)
update_attendee_checkin(qr_code_id) ==
    {IF a.qr_code_id = qr_code_id THEN CheckinData(a) ELSE a : a \in attendees}

\* a handler that never finds the ticket checked in
AlreadyCheckedIn_Never(a) == FALSE

\* if attendee.get("is_checked_in", False)
AlreadyCheckedIn(a) == a.is_checked_in

\* checkin_attendee up to the update: look the ticket up, 404 when absent,
\* success=False when it is already checked in
CheckinLookup(c, code, ok) ==
    /\ ciPc[c] = "idle"
    /\ qr_id' = [qr_id EXCEPT ![c] = code]
    /\ LET a == get_attendee_by_qr_id(code, ok)
       IN  IF a = NoAttendee
           THEN /\ ciPc' = [ciPc EXCEPT ![c] = "done"]
                /\ ciResponse' = [ciResponse EXCEPT ![c] =
                       [status |-> 404, success |-> FALSE,
                        message |-> "Attendee not found", checked_in_at |-> 0]]
           ELSE IF AlreadyCheckedIn(a)
           THEN /\ ciPc' = [ciPc EXCEPT ![c] = "done"]
                /\ ciResponse' = [ciResponse EXCEPT ![c] =
                       [status |-> 200, success |-> FALSE,
                        message |-> "Attendee already checked in",
                        checked_in_at |-> a.checked_in_at]]
           ELSE /\ ciPc' = [ciPc EXCEPT ![c] = "update"]
                /\ UNCHANGED ciResponse
    /\ UNCHANGED <<ticket_pricing, tierVars, mailVars, adminVars, appVars, statsVars, boardVars, attendees, bucket, clock, regVars,
                   background_tasks, shotsLeft>>

\* an update taken for done although the datastore call raised
UpdateFailed_NoRowOnly(data, ok) == data = {}

\* "if not updated_attendee": update_attendee_checkin returned None, because
\* the call raised or because response.data was empty
UpdateFailed(data, ok) == ~ok \/ data = {}

\* the rest of checkin_attendee: the update, then the confirmation e-mail is
\* scheduled and success=True returned; 500 when the update returns None
\* (it raised, or matched no row)
CheckinUpdate(c, ok) ==
    /\ ciPc[c] = "update"
    /\ ciPc' = [ciPc EXCEPT ![c] = "done"]
    /\ LET data == {a \in update_attendee_checkin(qr_id[c]) : a.qr_code_id = qr_id[c]}
       IN  IF ~UpdateFailed(data, ok)
           THEN /\ attendees' = (IF ok THEN update_attendee_checkin(qr_id[c])
                                 ELSE attendees)
                /\ clock' = clock + 1
                /\ background_tasks' = [background_tasks EXCEPT ![c] = TRUE]
                /\ ciResponse' = [ciResponse EXCEPT ![c] =
                       [status |-> 200, success |-> TRUE,
                        message |-> "Check-in successful",
                        checked_in_at |-> (CHOOSE a \in data : TRUE).checked_in_at]]
           ELSE /\ ciResponse' = [ciResponse EXCEPT ![c] =
                       [status |-> 500, success |-> FALSE,
                        message |-> "Failed to check in attendee",
                        checked_in_at |-> 0]]
                /\ UNCHANGED <<attendees, clock, background_tasks>>
    /\ UNCHANGED <<ticket_pricing, tierVars, mailVars, adminVars, appVars, statsVars, boardVars, bucket, regVars, qr_id, shotsLeft>>

Checkin(c, codes) ==
    \/ \E code \in codes \cup {NoCode}, ok \in BOOLEAN : CheckinLookup(c, code, ok)
    \/ \E ok \in BOOLEAN : CheckinUpdate(c, ok)

\* a confirmation e-mail whose failure takes the check-in back
SendCheckinConfirmation_UndoOnFailure(c, ok) ==
    /\ background_tasks[c]
    /\ checkin_confirmation[c] = "none"
    /\ checkin_confirmation' = [checkin_confirmation EXCEPT ![c] =
           IF ok THEN "sent" ELSE "failed"]
    /\ attendees' = IF ok THEN attendees
                    ELSE {IF a.qr_code_id = qr_id[c]
                          THEN [a EXCEPT !.is_checked_in = FALSE] ELSE a :
                          a \in attendees}
    /\ UNCHANGED <<ticket_pricing, tierVars, adminVars, appVars, statsVars, boardVars, bucket, clock,
                   regVars, ciVars, shotsLeft>>

\* the background task of a successful check-in, run after the response was
\* sent: sender.send_checkin_confirmation(email, name) returns True or, on
\* any failure, logs the error and returns False; nothing reads the result
SendCheckinConfirmation(c, ok) ==
    /\ background_tasks[c]
    /\ checkin_confirmation[c] = "none"
    /\ checkin_confirmation' = [checkin_confirmation EXCEPT ![c] =
           IF ok THEN "sent" ELSE "failed"]
    /\ UNCHANGED <<ticket_pricing, tierVars, adminVars, appVars, statsVars, boardVars, attendees, bucket, clock,
                   regVars, ciVars, shotsLeft>>

\* --------------------------------------------------- volunteer applications
\* the first half of approve_volunteer_application and of
\* reject_volunteer_application: the application is read, 404 when there is
\* none, 400 unless its status is PENDING; an exception gives the 500
ReviewLookup(q, kind, application_id, ok) ==
    /\ revPc[q] = "idle"
    /\ application' = [application EXCEPT ![q] = [kind |-> kind, id |-> application_id]]
    /\ LET status == IF ~ok THEN 500
                     ELSE IF application_id \notin AppIds THEN 404
                     ELSE IF volunteer_applications[application_id].status # "pending"
                     THEN 400 ELSE 0
       IN  /\ revPc' = [revPc EXCEPT ![q] = IF status = 0 THEN "update" ELSE "done"]
           /\ revResponse' = [revResponse EXCEPT ![q] = status]
    /\ UNCHANGED <<ticket_pricing, tierVars, mailVars, adminVars, statsVars, boardVars,
                   attendees, bucket, clock, regVars, ciVars, shotsLeft,
                   volunteer_applications>>

\* table("volunteer_applications").update(update_data).eq("id", ..): the
\* status is written whatever it is by now; reject then sends its e-mail,
\* whose failure is only logged, and returns; approve goes on to the account
ReviewUpdate(q, ok) ==
    /\ revPc[q] = "update"
    /\ volunteer_applications' =
           IF ok THEN [volunteer_applications EXCEPT ![application[q].id].status =
                          IF application[q].kind = "approve" THEN "approved"
                          ELSE "rejected"]
           ELSE volunteer_applications
    /\ revPc' = [revPc EXCEPT ![q] =
           IF ok /\ application[q].kind = "approve" THEN "insert" ELSE "done"]
    /\ revResponse' = [revResponse EXCEPT ![q] =
           IF ~ok THEN 500 ELSE IF application[q].kind = "approve" THEN 0 ELSE 200]
    /\ UNCHANGED <<ticket_pricing, tierVars, mailVars, adminVars, statsVars, boardVars,
                   attendees, bucket, clock, regVars, ciVars, shotsLeft, application>>

\* what table("users").insert(user_data).execute() can do: return the row,
\* return no data, or raise
InsertOutcomes == {"data", "empty", "raise"}

\* the account row of an approved application
UserData(email) ==
    [id |-> email, role |-> "volunteer", team_role |-> "", email |-> email]

\* the insert of the user account: with the row returned the approval e-mail
\* is sent (failure only logged) and the application returned; with no data
\* the handler goes to its rollback; an exception leaves through the outer
\* except with a 500 and no rollback
ApproveInsert(q, outcome) ==
    /\ revPc[q] = "insert"
    /\ users' = IF outcome = "data"
                THEN users \cup {UserData(volunteer_applications[application[q].id].email)}
                ELSE users
    /\ revPc' = [revPc EXCEPT ![q] = IF outcome = "empty" THEN "rollback" ELSE "done"]
    /\ revResponse' = [revResponse EXCEPT ![q] =
           IF outcome = "data" THEN 200 ELSE IF outcome = "raise" THEN 500 ELSE 0]
    /\ UNCHANGED <<ticket_pricing, tierVars, mailVars, adminVars, statsVars,
                   current_user, leaderboard_data,
                   attendees, bucket, clock, regVars, ciVars, shotsLeft,
                   volunteer_applications, application>>

\* the rollback of the status to PENDING, then the 500; when the update
\* raises the outer except answers 500 as well
ApproveRollback(q, ok) ==
    /\ revPc[q] = "rollback"
    /\ volunteer_applications' =
           IF ok THEN [volunteer_applications EXCEPT ![application[q].id].status = "pending"]
           ELSE volunteer_applications
    /\ revPc' = [revPc EXCEPT ![q] = "done"]
    /\ revResponse' = [revResponse EXCEPT ![q] = 500]
    /\ UNCHANGED <<ticket_pricing, tierVars, mailVars, adminVars, statsVars, boardVars,
                   attendees, bucket, clock, regVars, ciVars, shotsLeft, application>>

Review(q) ==
    \/ \E kind \in {"approve", "reject"}, application_id \in AppIds \cup {NoApp},
          ok \in BOOLEAN : ReviewLookup(q, kind, application_id, ok)
    \/ \E ok \in BOOLEAN : ReviewUpdate(q, ok)
    \/ \E outcome \in InsertOutcomes : ApproveInsert(q, outcome)
    \/ \E ok \in BOOLEAN : ApproveRollback(q, ok)

\* --------------------------------------------------------------- statistics
\* table("attendees").select("id", count="exact"): total_registered; an
\* exception in any query makes get_event_stats return the zero counts
StatsTotal(ok) ==
    /\ statsPc = "idle"
    /\ statsPc' = IF ok THEN "total" ELSE "done"
    /\ stats' = IF ok THEN [NoStats EXCEPT !.total_registered = Cardinality(attendees)]
                ELSE NoStats
    /\ UNCHANGED <<ticket_pricing, tierVars, mailVars, adminVars, appVars, boardVars, attendees,
                   bucket, clock, regVars, ciVars, shotsLeft>>

\* (total_checked_in / total_registered * 100) if total_registered > 0 else 0
Percentage(total_checked_in, total_registered) ==
    IF total_registered > 0 THEN (total_checked_in * 100) \div total_registered ELSE 0

\* the second count, .eq("is_checked_in", True), and the percentage
StatsCheckedIn(ok) ==
    /\ statsPc = "total"
    /\ statsPc' = IF ok THEN "checked_in" ELSE "done"
    /\ stats' = IF ok
                THEN LET total_checked_in == Cardinality({a \in attendees : a.is_checked_in})
                     IN  [stats EXCEPT
                            !.total_checked_in = total_checked_in,
                            !.checked_in_percentage =
                                Percentage(total_checked_in, stats.total_registered)]
                ELSE NoStats
    /\ UNCHANGED <<ticket_pricing, tierVars, mailVars, adminVars, appVars, boardVars, attendees,
                   bucket, clock, regVars, ciVars, shotsLeft>>

\* the third query, select("ticket_quantity", "total_price", "payment_mode"):
\* total_tickets_sold is the sum of ticket_quantity, 1 in every row; then the
\* result is returned
StatsTickets(ok) ==
    /\ statsPc = "checked_in"
    /\ statsPc' = "done"
    /\ stats' = IF ok THEN [stats EXCEPT !.total_tickets_sold = Cardinality(attendees)]
                ELSE NoStats
    /\ UNCHANGED <<ticket_pricing, tierVars, mailVars, adminVars, appVars, boardVars, attendees,
                   bucket, clock, regVars, ciVars, shotsLeft>>

get_event_stats ==
    \E ok \in BOOLEAN : StatsTotal(ok) \/ StatsCheckedIn(ok) \/ StatsTickets(ok)

\* -------------------------------------------------------------- screenshot
\* upload_transaction_screenshot: the file goes to another bucket, then
\* table("attendees").update({"transaction_screenshot_url": ..}).eq("id", ..)
UploadTransactionScreenshot(attendee_id) ==
    /\ shotsLeft > 0
    /\ shotsLeft' = shotsLeft - 1
    /\ attendees' = {IF a.id = attendee_id
                     THEN [a EXCEPT !.transaction_screenshot_url = TRUE]
                     ELSE a : a \in attendees}
    /\ UNCHANGED <<ticket_pricing, tierVars, mailVars, adminVars, appVars, statsVars, boardVars, bucket, clock, regVars, ciVars>>

\* ------------------------------------------------------------ pricing tiers
\* TicketPricingBase.validate_quantity_range: quantity_to >= quantity_from
ValidTier(t) == t.quantity_from <= t.quantity_to

\* price_per_ticket of a tier request
TierPrices == {12}

\* the fields of a tier request the handlers read, valid or not (food_option
\* and is_active are in the body too and are never read)
TierBodies ==
    [event_id : Events, quantity_from : Quantities, quantity_to : Quantities,
     price_per_ticket : TierPrices]

\* an overlap test that lets ranges share an end point
Overlaps_Strict(tier_body, existing_tier) ==
    /\ tier_body.quantity_from < existing_tier.quantity_to
    /\ tier_body.quantity_to > existing_tier.quantity_from

\* tier_data.quantity_from <= existing_tier["quantity_to"] and
\* tier_data.quantity_to >= existing_tier["quantity_from"]
Overlaps(tier_body, existing_tier) ==
    /\ tier_body.quantity_from <= existing_tier.quantity_to
    /\ tier_body.quantity_to >= existing_tier.quantity_from

\* the id the datastore gives a new row: one no row of the table has
NewTierId(rows) == CHOOSE i \in 1 .. Cardinality(rows) + 1 : \A t \in rows : t.id # i

\* no more than MaxTiers rows are kept in the table
TableHasRoom(n) == Cardinality(ticket_pricing) + n <= MaxTiers

\* POST /admin/tiers: 422 for a body that fails validation, 400 when the range
\* overlaps a tier of the event; the insert names neither food_option nor
\* is_active, the columns take the table's defaults; the response model is
\* built without the required food_option, so a tier that was inserted is
\* answered with 500 all the same
create_pricing_tier(tier_body, ok) ==
    /\ IF ~ValidTier(tier_body)
       THEN /\ tierResponse' = TierResult("create", 422)
            /\ UNCHANGED ticket_pricing
       ELSE LET existing_tiers == {t \in ticket_pricing : t.event_id = tier_body.event_id}
            IN  IF \E existing_tier \in existing_tiers : Overlaps(tier_body, existing_tier)
                THEN /\ tierResponse' = TierResult("create", 400)
                     /\ UNCHANGED ticket_pricing
                ELSE /\ TableHasRoom(1)
                     /\ tierResponse' = TierResult("create", 500)
                     /\ ticket_pricing' =
                            IF ok
                            THEN ticket_pricing \cup
                                   {[id |-> NewTierId(ticket_pricing),
                                     event_id |-> tier_body.event_id,
                                     quantity_from |-> tier_body.quantity_from,
                                     quantity_to |-> tier_body.quantity_to,
                                     price_per_ticket |-> tier_body.price_per_ticket,
                                     food_option |-> column_defaults.food_option,
                                     is_active |-> column_defaults.is_active]}
                            ELSE ticket_pricing
    /\ UNCHANGED <<column_defaults, mailVars, appVars, statsVars, attendees, bucket, clock, regVars, ciVars,
                   shotsLeft, boardVars>>

\* PUT /admin/tiers/{tier_id}: 404 for an unknown id, 400 when the new range
\* overlaps another tier of the same event; range and price are written,
\* food_option and is_active are not; answered with 500 like the create
update_pricing_tier(tier_id, tier_body, ok) ==
    /\ LET existing == {t \in ticket_pricing : t.id = tier_id}
       IN  IF ~ValidTier(tier_body)
           THEN /\ tierResponse' = TierResult("update", 422)
                /\ UNCHANGED ticket_pricing
           ELSE IF existing = {}
           THEN /\ tierResponse' = TierResult("update", 404)
                /\ UNCHANGED ticket_pricing
           ELSE LET existing_tier == CHOOSE t \in existing : TRUE
                    other_tiers == {t \in ticket_pricing :
                                      /\ t.event_id = existing_tier.event_id
                                      /\ t.id # tier_id}
                IN  IF \E other_tier \in other_tiers : Overlaps(tier_body, other_tier)
                    THEN /\ tierResponse' = TierResult("update", 400)
                         /\ UNCHANGED ticket_pricing
                    ELSE /\ tierResponse' = TierResult("update", 500)
                         /\ ticket_pricing' =
                                IF ok
                                THEN {IF t.id = tier_id
                                      THEN [t EXCEPT
                                              !.quantity_from = tier_body.quantity_from,
                                              !.quantity_to = tier_body.quantity_to,
                                              !.price_per_ticket = tier_body.price_per_ticket]
                                      ELSE t : t \in ticket_pricing}
                                ELSE ticket_pricing
    /\ UNCHANGED <<column_defaults, mailVars, appVars, statsVars, attendees, bucket, clock, regVars, ciVars,
                   shotsLeft, boardVars>>

\* DELETE /admin/tiers/{tier_id}: 404 when no row was deleted
delete_pricing_tier(tier_id) ==
    /\ ticket_pricing' = {t \in ticket_pricing : t.id # tier_id}
    /\ tierResponse' = TierResult("delete",
           IF \E t \in ticket_pricing : t.id = tier_id THEN 200 ELSE 404)
    /\ UNCHANGED <<column_defaults, mailVars, appVars, statsVars, attendees, bucket, clock, regVars, ciVars,
                   shotsLeft, boardVars>>

\* the two rows create_default_pricing_tiers inserts
DefaultTierTo == 251

default_tiers(event_id, rows) ==
    {[id |-> NewTierId(rows), event_id |-> event_id, quantity_from |-> 1,
      quantity_to |-> DefaultTierTo, price_per_ticket |-> 15,
      food_option |-> "without_food", is_active |-> TRUE],
     [id |-> NewTierId(rows \cup {[id |-> NewTierId(rows)]}), event_id |-> event_id, quantity_from |-> 1,
      quantity_to |-> DefaultTierTo, price_per_ticket |-> 18,
      food_option |-> "with_food", is_active |-> TRUE]}

\* POST /admin/create-default-tiers: 400 when the event has a tier already,
\* else both default tiers are inserted in one statement
create_default_pricing_tiers(event_id, ok) ==
    /\ IF \E t \in ticket_pricing : t.event_id = event_id
       THEN /\ tierResponse' = TierResult("create_default", 400)
            /\ UNCHANGED ticket_pricing
       ELSE IF ok
       THEN /\ TableHasRoom(2)
            /\ tierResponse' = TierResult("create_default", 200)
            /\ ticket_pricing' = ticket_pricing \cup default_tiers(event_id, ticket_pricing)
       ELSE /\ tierResponse' = TierResult("create_default", 500)
            /\ UNCHANGED ticket_pricing
    /\ UNCHANGED <<column_defaults, mailVars, appVars, statsVars, attendees, bucket, clock, regVars, ciVars,
                   shotsLeft, boardVars>>

\* -------------------------------------------------------------- leaderboard
\* .not_.in_("team_role", ["Director", "Secretary", "Vice President", "President"])
Leadership == {"Director", "Secretary", "Vice President", "President"}

Roles == {"volunteer", "president"}
TeamRoles == {"Member", "President", "null"}

\* a team_role that is set and is not a leadership role
Eligible(u) == u.team_role # "null" /\ u.team_role \notin Leadership

\* users with role = 'volunteer', team_role not null and not a leadership role
VolunteersQuery == {u \in users : u.role = "volunteer" /\ Eligible(u)}

\* the rows of a query without ORDER BY, in any order
AnyOrder(rows) ==
    {q \in [1 .. Cardinality(rows) -> rows] :
        \A i, j \in DOMAIN q : i # j => q[i] # q[j]}

\* the list the handler ranks: the volunteers of the query, then the current
\* user once more when eligible (the row read with the extra column "role"
\* never compares equal to a row of the query), or when absent from the list
Volunteers(data, user_id) ==
    LET found == {u \in users : u.id = user_id}
        current_user_data == CHOOSE u \in found : TRUE
        added == IF found # {} /\ Eligible(current_user_data)
                 THEN Append(data, current_user_data) ELSE data
    IN  IF found # {} /\ \A i \in DOMAIN added : added[i].id # user_id
        THEN Append(added, current_user_data) ELSE added

RECURSIVE SumQuantity(_)
SumQuantity(rows) ==
    IF rows = {} THEN 0
    ELSE LET a == CHOOSE x \in rows : TRUE
         IN  a.ticket_quantity + SumQuantity(rows \ {a})

\* volunteer_tickets.get(vid, 0): ticket_quantity summed over the user's rows
volunteer_tickets(vid) == SumQuantity({a \in attendees : a.created_by = vid})

\* leaderboard_data before the sort, one entry for each element of the list
LeaderboardEntries(volunteers, user_id) ==
    [i \in DOMAIN volunteers |->
        [volunteer_id |-> volunteers[i].id,
         tickets_sold |-> volunteer_tickets(volunteers[i].id),
         is_current_user |-> volunteers[i].id = user_id]]

\* leaderboard_data.sort(key=tickets_sold, reverse=True): stable, entries with
\* equal keys keep their order
SortPosition(data, i) ==
    1 + Cardinality({j \in DOMAIN data :
                        \/ data[j].tickets_sold > data[i].tickets_sold
                        \/ data[j].tickets_sold = data[i].tickets_sold /\ j < i})

SortByTicketsSold(data) ==
    [k \in DOMAIN data |-> data[CHOOSE i \in DOMAIN data : SortPosition(data, i) = k]]

\* ranks that go up by one at every change of the ticket count
RECURSIVE CurrentRank_Dense(_, _)
CurrentRank_Dense(data, i) ==
    IF i = 1 THEN 1
    ELSE IF data[i].tickets_sold # data[i - 1].tickets_sold
         THEN CurrentRank_Dense(data, i - 1) + 1
         ELSE CurrentRank_Dense(data, i - 1)

\* current_rank when the loop reaches entry i: i when the ticket count differs
\* from the entry before, else the rank of the entry before
RECURSIVE CurrentRank(_, _)
CurrentRank(data, i) ==
    IF i = 1 THEN 1
    ELSE IF data[i].tickets_sold # data[i - 1].tickets_sold
         THEN i
         ELSE CurrentRank(data, i - 1)

\* GET /volunteers/leaderboard for user_id: an empty board when the list of
\* volunteers is empty, else the list sorted and ranked
get_volunteer_leaderboard(user_id) ==
    /\ current_user' = user_id
    /\ \E data \in AnyOrder(VolunteersQuery) :
          LET sorted == SortByTicketsSold(
                            LeaderboardEntries(Volunteers(data, user_id), user_id))
          IN  leaderboard_data' =
                  [i \in DOMAIN sorted |->
                      [volunteer_id |-> sorted[i].volunteer_id,
                       tickets_sold |-> sorted[i].tickets_sold,
                       is_current_user |-> sorted[i].is_current_user,
                       rank |-> CurrentRank(sorted, i)]]
    /\ UNCHANGED <<ticket_pricing, tierVars, mailVars, adminVars, appVars, statsVars, users, attendees, bucket, clock,
                   regVars, ciVars, shotsLeft>>

\* --------------------------------------------------------------------- Next
\* one registration, NumCheckin check-ins and the screenshot uploads, all
\* running concurrently
Next ==
    \/ Register(1)
    \/ \E c \in CheckinReqs : Checkin(c, CodesOf({1}))
    \/ \E attendee_id \in CodesOf({1}) : UploadTransactionScreenshot(attendee_id)

Spec == Init /\ [][Next]_vars

\* two registrations and the screenshot uploads, running concurrently
NextRegister ==
    \/ \E r \in RegReqs : Register(r)
    \/ \E attendee_id \in CodesOf(RegReqs) : UploadTransactionScreenshot(attendee_id)

SpecRegister == Init /\ [][NextRegister]_vars

\* one registration, the check-ins and their confirmation e-mails
NextCheckin ==
    \/ Register(1)
    \/ \E c \in CheckinReqs : Checkin(c, CodesOf({1}))
    \/ \E c \in CheckinReqs, ok \in BOOLEAN : SendCheckinConfirmation(c, ok)

SpecCheckin == Init /\ [][NextCheckin]_vars

\* one registration and the check-ins next to one statistics request
NextStats ==
    \/ Register(1)
    \/ \E c \in CheckinReqs : Checkin(c, CodesOf({1}))
    \/ get_event_stats

SpecStats == Init /\ [][NextStats]_vars

\* the approve and reject requests of the president, no account made yet
InitApps ==
    /\ ticket_pricing = DefaultTiers
    /\ attendees = {}
    /\ users = {}
    /\ column_defaults = [food_option |-> "with_food", is_active |-> TRUE]
    /\ InitHandlers

NextApps == \E q \in ReviewReqs : Review(q)

SpecApps == InitApps /\ [][NextApps]_vars

\* the requests one after the other: a step is taken only when it leaves at
\* most one request between its first call and its return
InFlight ==
    Cardinality({r \in RegReqs : regPc[r] \notin {"idle", "done"}})
    + Cardinality({c \in CheckinReqs : ciPc[c] \notin {"idle", "done"}})

NextSeq == Next /\ InFlight' <= 1

SpecSeq == Init /\ [][NextSeq]_vars

\* two registrations against a tier table with gaps: with_food has no tier
\* for one ticket, without_food has no active tier at all
GapTiers == {TierB, TierD}

InitTables ==
    /\ ticket_pricing \in {DefaultTiers, GapTiers}
    /\ InitRequests

NextTables == \E r \in RegReqs : Register(r)

SpecTables == InitTables /\ [][NextTables]_vars

\* validation and price resolution of two requests at the ends of the
\* accepted range and just outside it
BoundaryQuantities == {MinTickets, MaxTickets}

NextBounds ==
    \E r \in RegReqs :
      \E quantity \in Quantities \cup BoundaryQuantities \cup InvalidQuantities :
        \/ \E payment_mode \in PaymentModes, food_option \in FoodOptions :
              RegisterPricing(r, quantity, payment_mode, food_option)
        \/ RegisterRejected(r, quantity)

SpecBounds == Init /\ [][NextBounds]_vars

\* the pricing-tier operations, each run to completion, on a table that
\* starts empty
TierIds == 1 .. MaxTiers + 1

TierOperation ==
    \/ \E tier_body \in TierBodies, ok \in BOOLEAN :
            create_pricing_tier(tier_body, ok)
    \/ \E tier_id \in TierIds, tier_body \in TierBodies, ok \in BOOLEAN :
            update_pricing_tier(tier_id, tier_body, ok)
    \/ \E tier_id \in TierIds : delete_pricing_tier(tier_id)
    \/ \E event_id \in Events, ok \in BOOLEAN :
            create_default_pricing_tiers(event_id, ok)

NextTiers == TierOperation /\ UNCHANGED editsLeft

InitTiers ==
    /\ ticket_pricing = {}
    /\ attendees = {}
    /\ users = DefaultUsers
    /\ column_defaults \in ColumnDefaults
    /\ InitHandlers

SpecTiers == InitTiers /\ [][NextTiers]_vars

\* one registration while an administrator edits the tier table
InitAdmin ==
    /\ ticket_pricing = {}
    /\ InitRequests

\* the tier requests of the administrator: the event of the registration,
\* two prices to choose from
AdminPrices == {12, 13}

AdminBodies ==
    [event_id : {DefaultEvent}, quantity_from : Quantities,
     quantity_to : Quantities, price_per_ticket : AdminPrices]

AdminEdit ==
    /\ editsLeft > 0
    /\ editsLeft' = editsLeft - 1
    /\ \/ \E tier_body \in AdminBodies : create_pricing_tier(tier_body, TRUE)
       \/ \E tier_id \in TierIds, tier_body \in AdminBodies :
              update_pricing_tier(tier_id, tier_body, TRUE)
       \/ \E tier_id \in TierIds : delete_pricing_tier(tier_id)
       \/ create_default_pricing_tiers(DefaultEvent, TRUE)

NextAdmin ==
    \/ Register(1)
    \/ AdminEdit

SpecAdmin == InitAdmin /\ [][NextAdmin]_vars

\* leaderboard requests over every small users table and every number of
\* tickets sold by each user
UserKinds == [role : Roles, team_role : TeamRoles]

\* ticket k of the tickets user u sold
TicketRow(u, k) ==
    [NoAttendee EXCEPT !.id = <<u, k>>, !.qr_code_id = <<u, k>>,
                       !.ticket_quantity = 1, !.created_by = u]

InitBoard ==
    /\ ticket_pricing = DefaultTiers
    /\ column_defaults = [food_option |-> "with_food", is_active |-> TRUE]
    /\ \E kind \in [UserIds -> UserKinds] :
          users = {[id |-> u, role |-> kind[u].role, team_role |-> kind[u].team_role] :
                      u \in UserIds}
    /\ \E sold \in [UserIds -> 0 .. MaxSold] :
          attendees = UNION {{TicketRow(u, k) : k \in 1 .. sold[u]} : u \in UserIds}
    /\ InitHandlers

NextBoard == \E user_id \in UserIds \cup {NoUser} : get_volunteer_leaderboard(user_id)

SpecBoard == InitBoard /\ [][NextBoard]_vars

\* price resolution alone, over every small tier table
\* what a tier row can hold
TierFields ==
    {t \in [event_id : Events, quantity_from : Quantities,
            quantity_to : Quantities, food_option : FoodOptions,
            is_active : BOOLEAN] : ValidTier(t)}

\* the tier row with this id; its price tells the tiers apart
TierRow(id, t) ==
    [id |-> id, event_id |-> t.event_id, quantity_from |-> t.quantity_from,
     quantity_to |-> t.quantity_to, price_per_ticket |-> 10 + id,
     food_option |-> t.food_option, is_active |-> t.is_active]

InitPricing ==
    /\ \E n \in 0 .. MaxTiers : \E tab \in [1 .. n -> TierFields] :
          ticket_pricing = {TierRow(i, tab[i]) : i \in 1 .. n}
    /\ InitRequests

NextPricing ==
    \E quantity \in Quantities, payment_mode \in PaymentModes,
       food_option \in FoodOptions :
        RegisterPricing(1, quantity, payment_mode, food_option)

SpecPricing == InitPricing /\ [][NextPricing]_vars

\* ------------------------------------------------------------------ claims
\* the ticket rows and the stored images that carry a code of request r
RowsOf(r) == {a \in attendees : a.qr_code_id[1] = r}
ImagesOf(r) == {o \in bucket : o.file[1] = r}

PrepareFailure(r) ==
    /\ regResponse[r].status = 500
    /\ regResponse[r].detail = "Failed to prepare ticket"

CommitFailure(r) ==
    /\ regResponse[r].status = 500
    /\ regResponse[r].detail = "Failed to create registration records"

\* the sum of the prices stored in a set of ticket rows
RECURSIVE SumPrices(_)
SumPrices(S) ==
    IF S = {} THEN 0
    ELSE LET x == CHOOSE y \in S : TRUE
         IN  x.total_price + SumPrices(S \ {x})

\* the calls op(<<r, 1>>), ..., op(<<r, n>>) in this order
Calls(op, r, n) == [i \in 1 .. n |-> Call(op, generate_qr_code_id(r, i))]

\* C1: a register request that has failed in Prepare or Commit and returned
\* leaves none of its ticket rows and none of its stored images behind.
C1_FailedRegisterLeavesNothing ==
    \A r \in RegReqs :
        regResponse[r].status = 500 => RowsOf(r) = {} /\ ImagesOf(r) = {}

\* C2: a register request that returned success for quantity q has exactly q
\* rows persisted, one ticket each, whose prices add up to
\* (tier price + surcharge of the payment method) * q.
C2_SuccessPersistsQuantityAndTotal ==
    \A r \in RegReqs :
        regResponse[r].status = 200 =>
            /\ Cardinality(RowsOf(r)) = attendee[r].ticket_quantity
            /\ \A a \in RowsOf(r) : a.ticket_quantity = 1
            /\ SumPrices(RowsOf(r)) =
                   (tier_data[r].price_per_ticket
                      + (IF attendee[r].payment_mode = "zelle" THEN 1 ELSE 0))
                   * attendee[r].ticket_quantity

C2_Witness ==
    \E r \in RegReqs :
        /\ regResponse[r].status = 200
        /\ attendee[r].ticket_quantity >= 2
        /\ attendee[r].payment_mode = "zelle"
        /\ \E a \in RowsOf(r) : a.is_checked_in

\* C3: of the check-in requests for one ticket code, at most one returns
\* success=true.
C3_AtMostOneFirstCheckin ==
    \A c1, c2 \in CheckinReqs :
        (/\ ciResponse[c1].success
         /\ ciResponse[c2].success
         /\ qr_id[c1] = qr_id[c2]) => c1 = c2

\* C4: a delete(code) that succeeds after upload(code) succeeded leaves no
\* object for the code in the bucket.
C4_DeleteRemovesUploadedImage ==
    [][\A r \in RegReqs :
          CleanupCode(r, TRUE) =>
              UploadPath(CleanupTargets(r)[regIdx[r]]) \notin bucket']_vars

\* C5: two check-ins of one existing code in sequence: the first returns
\* success=true and sets checked_in_at, the second returns success=false
\* "already checked in" and leaves checked_in_at as the first set it.
C5_FirstCall(c) ==
    CheckinUpdate(c, TRUE) =>
        /\ ciResponse'[c].success
        /\ ciResponse'[c].checked_in_at = clock
        /\ \E a \in attendees' :
              a.qr_code_id = qr_id[c] /\ a.is_checked_in /\ a.checked_in_at = clock

C5_SecondCall(c) ==
    \A first \in CheckinReqs \ {c} :
        (/\ ciResponse[first].success
         /\ CheckinLookup(c, qr_id[first], TRUE)) =>
            /\ ciResponse'[c].status = 200
            /\ ~ciResponse'[c].success
            /\ ciResponse'[c].message = "Attendee already checked in"
            /\ ciResponse'[c].checked_in_at = ciResponse[first].checked_in_at
            /\ attendees' = attendees
            /\ \E a \in attendees' :
                  /\ a.qr_code_id = qr_id[first]
                  /\ a.checked_in_at = ciResponse[first].checked_in_at

C5_TwiceInSequence ==
    [][\A c \in CheckinReqs : C5_FirstCall(c) /\ C5_SecondCall(c)]_vars

C5_Witness ==
    \E c1, c2 \in CheckinReqs :
        /\ ciResponse[c1].success
        /\ ciResponse[c2].message = "Attendee already checked in"
        /\ qr_id[c1] = qr_id[c2]
        /\ ciResponse[c2].checked_in_at = ciResponse[c1].checked_in_at

\* C6: when Prepare fails at ticket k, delete has been called on exactly the
\* codes issued for tickets 1..k-1, no row of the request was inserted, and
\* the request fails with 500 only after that.
C6_PrepareFailureCleansIssuedCodes ==
    \A r \in RegReqs :
        /\ regPc[r] \in {"prepare", "cleanup"} =>
              /\ RowsOf(r) = {}
              /\ regResponse[r].status = 0
        /\ PrepareFailure(r) =>
              /\ regResponse[r].ticket_num \in 1 .. attendee[r].ticket_quantity
              /\ qr_codes_data[r] =
                     [i \in 1 .. regResponse[r].ticket_num - 1 |->
                         generate_qr_code_id(r, i)]
              /\ regCalls[r] =
                     Calls("delete_qr_code", r, regResponse[r].ticket_num - 1)
              /\ created_attendees[r] = <<>>
              /\ RowsOf(r) = {}

C6_Witness ==
    \E r \in RegReqs :
        /\ PrepareFailure(r)
        /\ regResponse[r].ticket_num = 2
        /\ Len(regCalls[r]) = 1

\* C7: when Commit fails at row j, the rows 1..j-1 are deleted first, then
\* delete is called on all N codes, and only then the 500 is returned.
C7_CommitFailureRollbackOrder ==
    \A r \in RegReqs :
        /\ regPc[r] \in {"rollback_rows", "rollback_codes"} =>
              regResponse[r].status = 0
        /\ CommitFailure(r) =>
              /\ Len(created_attendees[r]) < attendee[r].ticket_quantity
              /\ created_attendees[r] =
                     [i \in 1 .. Len(created_attendees[r]) |->
                         generate_qr_code_id(r, i)]
              /\ regCalls[r] =
                     Calls("delete_attendee", r, Len(created_attendees[r]))
                     \o Calls("delete_qr_code", r, attendee[r].ticket_quantity)

C7_Witness ==
    \E r \in RegReqs :
        /\ CommitFailure(r)
        /\ Len(created_attendees[r]) = 1
        /\ Len(regCalls[r]) = 3

\* C8: once a ticket row has is_checked_in = true, no step of any request
\* makes it false again.
C8_CheckedInIsMonotonic ==
    [][\A a \in attendees : \A b \in attendees' :
          (a.is_checked_in /\ b.id = a.id) => b.is_checked_in]_vars

C8_Witness ==
    \E a \in attendees :
        /\ a.is_checked_in
        /\ a.transaction_screenshot_url
        /\ \E c1, c2 \in CheckinReqs :
              /\ c1 # c2
              /\ ciResponse[c1].success /\ qr_id[c1] = a.qr_code_id
              /\ ciResponse[c2].success /\ qr_id[c2] = a.qr_code_id

\* C9: checked_in_at of a ticket row never changes after its first
\* assignment.
C9_CheckedInAtSetOnce ==
    [][\A a \in attendees : \A b \in attendees' :
          (a.checked_in_at # 0 /\ b.id = a.id) =>
              b.checked_in_at = a.checked_in_at]_vars

\* C10: price resolution selects, among the active tiers of the event with
\* the requested food option, a tier of least quantity_from whose inclusive
\* range contains the quantity, and none when no such tier contains it.
C10_Containing(r) ==
    {t \in ticket_pricing :
        /\ t.event_id = DefaultEvent
        /\ t.is_active
        /\ t.food_option = attendee[r].food_option
        /\ t.quantity_from <= attendee[r].ticket_quantity
        /\ attendee[r].ticket_quantity <= t.quantity_to}

C10_FirstContainingTier ==
    \A r \in RegReqs :
        regPc[r] # "idle" =>
            IF C10_Containing(r) = {}
            THEN tier_data[r] = NoTier /\ regResponse[r].status = 400
            ELSE /\ tier_data[r] \in C10_Containing(r)
                 /\ \A t \in C10_Containing(r) :
                        tier_data[r].quantity_from <= t.quantity_from
                 /\ regPc[r] = "prepare"

C10_Witness ==
    \E r \in RegReqs :
        /\ regPc[r] = "prepare"
        /\ \E t \in C10_Containing(r) :
              t.quantity_from > tier_data[r].quantity_from

\* C11: for every successful price resolution, price per ticket = base tier
\* price + surcharge and total = (base tier price + surcharge) * quantity, the
\* surcharge being 1 per ticket for zelle and 0 for cash; with the tiers
\* (1..5 at 15) and (6..20 at 12), quantity 6 costs 12 / 72 in cash and
\* 13 / 78 by zelle.
C11_ExampleTiers ==
    <<[TierA EXCEPT !.quantity_from = 1, !.quantity_to = 5, !.price_per_ticket = 15],
      [TierB EXCEPT !.quantity_from = 6, !.quantity_to = 20, !.price_per_ticket = 12]>>

C11_Example ==
    LET t == FirstMatch(C11_ExampleTiers, 6, "with_food")
    IN  /\ TierPrice(t, "cash") = 12
        /\ TotalPrice(t, "cash", 6) = 72
        /\ TierPrice(t, "zelle") = 13
        /\ TotalPrice(t, "zelle", 6) = 78

C11_PriceIsTierPricePlusSurcharge ==
    /\ C11_Example
    /\ \A r \in RegReqs :
          regPc[r] = "prepare" =>
              /\ price_per_ticket[r] =
                     tier_data[r].price_per_ticket
                       + (IF attendee[r].payment_mode = "zelle" THEN 1 ELSE 0)
              /\ total_price[r] =
                     (tier_data[r].price_per_ticket
                        + (IF attendee[r].payment_mode = "zelle" THEN 1 ELSE 0))
                     * attendee[r].ticket_quantity

C11_Witness ==
    \E r \in RegReqs :
        /\ regPc[r] = "prepare"
        /\ attendee[r].payment_mode = "zelle"
        /\ attendee[r].ticket_quantity = 2
        /\ tier_data[r].quantity_from = 2
        /\ total_price[r] = 2 * (tier_data[r].price_per_ticket + 1)
        /\ \E t \in ticket_pricing :
              /\ t.quantity_to = 1
              /\ t.is_active
              /\ t.event_id = tier_data[r].event_id
              /\ t.food_option = tier_data[r].food_option

\* C12: a register request fails with 400 "no pricing tiers found" when no
\* active tier exists for its food option, and with another 400 "no pricing
\* tier found for the specified quantity" when active tiers exist and none
\* contains the quantity; either way no code is issued, no image stored and no
\* row created.
C12_Active(r) ==
    {t \in ticket_pricing :
        /\ t.event_id = DefaultEvent
        /\ t.is_active
        /\ t.food_option = attendee[r].food_option}

C12_NoTierIs400WithoutEffects ==
    \A r \in RegReqs :
        /\ (regPc[r] # "idle" /\ regResponse[r].status # 422) =>
              /\ C12_Active(r) = {} =>
                    /\ regResponse[r].status = 400
                    /\ regResponse[r].detail = "No pricing tiers found for this event"
              /\ (C12_Active(r) # {} /\ C10_Containing(r) = {}) =>
                    /\ regResponse[r].status = 400
                    /\ regResponse[r].detail =
                           "No pricing tier found for the specified quantity"
        /\ regResponse[r].status = 400 =>
              /\ regPc[r] = "done"
              /\ qr_codes_data[r] = <<>>
              /\ ImagesOf(r) = {}
              /\ RowsOf(r) = {}
              /\ created_attendees[r] = <<>>

C12_Witness ==
    \E r1, r2 \in RegReqs :
        /\ regResponse[r1].detail = "No pricing tiers found for this event"
        /\ regResponse[r2].detail = "No pricing tier found for the specified quantity"
        /\ C12_Active(r2) # {}

\* C13: a register request for 1 or for 20 tickets resolves its price against
\* a tier that covers it; a request for a quantity outside 1..20 (0, 21) is
\* rejected as a validation error before pricing is attempted and before any
\* code is issued or row inserted.
C13_QuantityBounds ==
    \A r \in RegReqs :
        regPc[r] # "idle" =>
            /\ (attendee[r].ticket_quantity \in {1, 20} /\ C10_Containing(r) # {}) =>
                  /\ regPc[r] = "prepare"
                  /\ regResponse[r].status = 0
                  /\ tier_data[r] \in C10_Containing(r)
            /\ attendee[r].ticket_quantity \notin 1 .. 20 =>
                  /\ regPc[r] = "done"
                  /\ regResponse[r].status = 422
                  /\ tier_data[r] = NoTier
                  /\ price_per_ticket[r] = 0
                  /\ total_price[r] = 0
                  /\ qr_codes_data[r] = <<>>
                  /\ created_attendees[r] = <<>>
                  /\ ImagesOf(r) = {}
                  /\ RowsOf(r) = {}

C13_Witness ==
    \E r1, r2 \in RegReqs :
        /\ attendee[r1].ticket_quantity = 20
        /\ regPc[r1] = "prepare"
        /\ tier_data[r1].quantity_to = 20
        /\ attendee[r2].ticket_quantity = 21
        /\ regResponse[r2].status = 422

\* C14: a check-in request for a code that matches no ticket fails with 404
\* and has no side effect: no row is written and no confirmation e-mail is
\* scheduled, then or later.
C14_UnknownCodeIs404 ==
    [][\A c \in CheckinReqs :
          /\ (/\ ciPc[c] = "idle"
              /\ ciPc'[c] # "idle"
              /\ \A a \in attendees : a.qr_code_id # qr_id'[c]) =>
                    /\ ciResponse'[c].status = 404
                    /\ ciPc'[c] = "done"
                    /\ attendees' = attendees
                    /\ bucket' = bucket
                    /\ background_tasks' = background_tasks
          /\ ciResponse[c].status = 404 =>
                /\ ciResponse'[c] = ciResponse[c]
                /\ ~background_tasks'[c]]_vars

C14_Witness ==
    \E c \in CheckinReqs :
        /\ ciResponse[c].status = 404
        /\ qr_id[c] = generate_qr_code_id(1, 2)
        /\ \E a \in attendees : a.qr_code_id = generate_qr_code_id(1, 1)
        /\ \A a \in attendees : a.qr_code_id # qr_id[c]
        /\ ~background_tasks[c]

\* C15: the response of a successful register request carries none of the
\* codes or image URLs issued for the registration: its code field is empty
\* and its image URL null, its ticket_quantity is the quantity requested and
\* its total_price the total of the registration.
C15_IssuedCodes(r) == {qr_codes_data[r][i] : i \in DOMAIN qr_codes_data[r]}

C15_ResponseCarriesNoCode ==
    \A r \in RegReqs :
        regResponse[r].status = 200 =>
            /\ summary_data[r].qr_code_id = NoCode
            /\ summary_data[r].qr_code_url = NoUrl
            /\ summary_data[r].qr_code_id \notin C15_IssuedCodes(r)
            /\ summary_data[r].qr_code_url \notin
                   {UploadPath(c) : c \in C15_IssuedCodes(r)}
            /\ summary_data[r].ticket_quantity = attendee[r].ticket_quantity
            /\ summary_data[r].total_price =
                   (tier_data[r].price_per_ticket
                      + (IF attendee[r].payment_mode = "zelle" THEN 1 ELSE 0))
                   * attendee[r].ticket_quantity

C15_Witness ==
    \E r \in RegReqs :
        /\ regResponse[r].status = 200
        /\ attendee[r].ticket_quantity = 2
        /\ Cardinality(C15_IssuedCodes(r)) = 2
        /\ summary_data[r].ticket_quantity = 2
        /\ summary_data[r].total_price > 0

\* C16: a registration e-mail that fails (the sender reports failure or
\* raises) does not change the outcome of the committed registration: register
\* returns success and all N rows and all N stored images remain.
C16_EmailFailureKeepsRegistration ==
    \A r \in RegReqs :
        regEmail[r] = "failed" =>
            /\ regPc[r] = "done"
            /\ regResponse[r].status = 200
            /\ Cardinality(RowsOf(r)) = attendee[r].ticket_quantity
            /\ Cardinality(ImagesOf(r)) = attendee[r].ticket_quantity
            /\ \A i \in 1 .. attendee[r].ticket_quantity :
                  /\ \E a \in attendees : a.qr_code_id = generate_qr_code_id(r, i)
                  /\ UploadPath(generate_qr_code_id(r, i)) \in bucket

C16_Witness ==
    \E r1, r2 \in RegReqs :
        /\ regEmail[r1] = "failed"
        /\ attendee[r1].ticket_quantity = 2
        /\ regResponse[r1].status = 200
        /\ regResponse[r2].status = 500

\* C17: after any sequence of pricing-tier operations (create, update,
\* delete, create-default), each run to completion before the next, no two
\* tiers of one event and one food option have overlapping inclusive ranges,
\* and every tier has quantity_from <= quantity_to.
C17_TiersDoNotOverlap ==
    /\ \A t \in ticket_pricing : t.quantity_from <= t.quantity_to
    /\ \A t1, t2 \in ticket_pricing :
          (/\ t1 # t2
           /\ t1.event_id = t2.event_id
           /\ t1.food_option = t2.food_option) =>
              \/ t1.quantity_to < t2.quantity_from
              \/ t2.quantity_to < t1.quantity_from

C17_Witness ==
    /\ tierResponse = 400
    /\ \E t1, t2 \in ticket_pricing :
          /\ t1.id # t2.id
          /\ t1.event_id = t2.event_id
          /\ t1.food_option = t2.food_option
          /\ t1.quantity_to + 1 = t2.quantity_from

\* C18: the leaderboard is ordered by tickets sold, descending, and ties
\* share a rank: the rank of every entry is 1 plus the number of entries with
\* strictly more tickets sold, so two entries have the same rank exactly when
\* they have the same ticket count.
C18_RanksFollowTicketsSold ==
    /\ \A i, j \in DOMAIN leaderboard_data :
          /\ i < j => leaderboard_data[i].tickets_sold >= leaderboard_data[j].tickets_sold
          /\ leaderboard_data[i].rank = leaderboard_data[j].rank
                <=> leaderboard_data[i].tickets_sold = leaderboard_data[j].tickets_sold
    /\ \A i \in DOMAIN leaderboard_data :
          leaderboard_data[i].rank =
              1 + Cardinality({j \in DOMAIN leaderboard_data :
                                  leaderboard_data[j].tickets_sold
                                    > leaderboard_data[i].tickets_sold})

C18_Witness ==
    /\ Len(leaderboard_data) >= 3
    /\ leaderboard_data[1].rank = 1
    /\ leaderboard_data[2].rank = 1
    /\ leaderboard_data[3].rank = 3
    /\ leaderboard_data[1].volunteer_id # leaderboard_data[2].volunteer_id
    /\ leaderboard_data[3].tickets_sold > 0

\* C19: within one register request the phases are strictly ordered: the
\* price is resolved exactly once, before any code is issued, and no ticket
\* row is inserted until all N codes are issued and their images uploaded.
C19_NewRowIds(r) ==
    {a.id : a \in {b \in attendees' : b.qr_code_id[1] = r}} \ {a.id : a \in RowsOf(r)}

C19_PhasesInOrder ==
    [][\A r \in RegReqs :
          /\ regPc[r] # "idle" =>
                /\ regPc'[r] # "idle"
                /\ tier_data'[r] = tier_data[r]
                /\ price_per_ticket'[r] = price_per_ticket[r]
                /\ total_price'[r] = total_price[r]
          /\ qr_codes_data'[r] # qr_codes_data[r] =>
                /\ tier_data[r] # NoTier
                /\ total_price[r] = price_per_ticket[r] * attendee[r].ticket_quantity
                /\ created_attendees[r] = <<>>
                /\ RowsOf(r) = {}
          /\ C19_NewRowIds(r) # {} =>
                /\ qr_codes_data'[r] = qr_codes_data[r]
                /\ Len(qr_codes_data[r]) = attendee[r].ticket_quantity
                /\ \A i \in 1 .. attendee[r].ticket_quantity :
                      UploadPath(qr_codes_data[r][i]) \in bucket]_vars

C19_Witness ==
    \E r \in RegReqs :
        /\ regPc[r] = "commit"
        /\ attendee[r].ticket_quantity = 2
        /\ Len(qr_codes_data[r]) = 2
        /\ Cardinality(RowsOf(r)) = 1

\* C20: the registration e-mail is triggered only after all N rows of the
\* request are inserted: none is sent for a request that fails in validation,
\* pricing, Prepare or Commit.
C20_EmailOnlyAfterCommit ==
    \A r \in RegReqs :
        /\ regEmail[r] # "none" =>
              /\ Len(created_attendees[r]) = attendee[r].ticket_quantity
              /\ Cardinality(RowsOf(r)) = attendee[r].ticket_quantity
              /\ regCalls[r] = <<>>
              /\ regResponse[r].status = 200
        /\ regResponse[r].status \in {400, 422, 500} => regEmail[r] = "none"
        /\ regPc[r] \in {"cleanup", "rollback_rows", "rollback_codes"} =>
              regEmail[r] = "none"

C20_Witness ==
    \E r1, r2 \in RegReqs :
        /\ regEmail[r1] = "sent"
        /\ attendee[r1].ticket_quantity = 2
        /\ CommitFailure(r2)
        /\ Len(created_attendees[r2]) = 1
        /\ regEmail[r2] = "none"

\* C21: the registration e-mail is fire-and-forget: once the rows of a
\* request are committed, the response can be returned without the e-mail
\* having completed, i.e. the response does not wait for the sender.
C21_ReturnedBeforeEmail(r) ==
    /\ NextRegister
    /\ regResponse'[r].status = 200
    /\ regEmail'[r] = "none"

C21_ResponseDoesNotWaitForEmail ==
    \A r \in RegReqs : regPc[r] = "notify" => ENABLED C21_ReturnedBeforeEmail(r)

\* C22: a check-in request that finds the ticket already checked in is a
\* no-op: it writes nothing to the datastore, leaves every field of the ticket
\* row as it is and schedules no confirmation e-mail.
C22_AlreadyCheckedInIsNoOp ==
    [][\A c \in CheckinReqs :
          /\ (/\ ciPc[c] = "idle"
              /\ ciPc'[c] # "idle"
              /\ ciResponse'[c].status # 404
              /\ \E a \in attendees : a.qr_code_id = qr_id'[c] /\ a.is_checked_in) =>
                    /\ ciPc'[c] = "done"
                    /\ ciResponse'[c].status = 200
                    /\ ~ciResponse'[c].success
                    /\ ciResponse'[c].message = "Attendee already checked in"
                    /\ attendees' = attendees
                    /\ bucket' = bucket
                    /\ clock' = clock
                    /\ background_tasks' = background_tasks
          /\ ciResponse[c].message = "Attendee already checked in" =>
                /\ ciPc'[c] = "done"
                /\ ciResponse'[c] = ciResponse[c]
                /\ ~background_tasks'[c]]_vars

C22_Witness ==
    \E c \in CheckinReqs :
        /\ ciResponse[c].message = "Attendee already checked in"
        /\ ~background_tasks[c]
        /\ \E a \in attendees :
              /\ a.qr_code_id = qr_id[c]
              /\ a.is_checked_in
              /\ a.checked_in_at = ciResponse[c].checked_in_at
              /\ a.transaction_screenshot_url

\* C23: a compensating delete that fails during clean-up or rollback (row
\* delete or image delete) does not stop the rollback and does not change the
\* error returned: every remaining compensation is still attempted and the
\* caller receives the same 500 as when all compensations succeed.
C23_AllAttempted(r) ==
    /\ PrepareFailure(r) =>
          Len(regCalls[r]) = regResponse[r].ticket_num - 1
    /\ CommitFailure(r) =>
          /\ Len(regCalls[r]) =
                 Len(created_attendees[r]) + attendee[r].ticket_quantity
          /\ regResponse[r] =
                 [status |-> 500, detail |-> "Failed to create registration records",
                  ticket_num |-> 0]

C23_FailedDeleteGoesOn(r) ==
    /\ RollbackAttendee(r, FALSE) =>
          /\ regResponse'[r].status = 0
          /\ Len(regCalls'[r]) = Len(regCalls[r]) + 1
          /\ regPc'[r] = IF regIdx[r] < Len(created_attendees[r])
                         THEN "rollback_rows" ELSE "rollback_codes"
    /\ CleanupCode(r, FALSE) =>
          /\ Len(regCalls'[r]) = Len(regCalls[r]) + 1
          /\ IF regIdx[r] < Len(qr_codes_data[r])
             THEN regPc'[r] = regPc[r] /\ regResponse'[r].status = 0
             ELSE /\ regPc'[r] = "done"
                  /\ regResponse'[r].status = 500
                  /\ regResponse'[r].detail =
                         IF regPc[r] = "cleanup" THEN "Failed to prepare ticket"
                         ELSE "Failed to create registration records"

C23_RollbackFailureIsSwallowed ==
    /\ [](\A r \in RegReqs : C23_AllAttempted(r))
    /\ [][\A r \in RegReqs : C23_FailedDeleteGoesOn(r)]_vars

C23_Witness ==
    \E r \in RegReqs :
        /\ CommitFailure(r)
        /\ attendee[r].ticket_quantity = 2
        /\ Len(created_attendees[r]) = 1
        /\ RowsOf(r) # {}
        /\ Len(regCalls[r]) = 3

\* C24: a ticket row is deleted only by the Step 2 rollback of the register
\* request that inserted it: once a request has returned success none of its
\* rows is ever deleted, and the compensations of a failing request leave
\* the rows and images of every other registration unchanged.
C24_Ids(S) == {a.id : a \in S}

C24_OwnRollbackOnly(r) ==
    /\ ~(C24_Ids(RowsOf(r)) \subseteq C24_Ids(RowsOf(r)')) =>
          /\ regPc[r] = "rollback_rows"
          /\ regResponse[r].status = 0
          /\ Len(regCalls'[r]) = Len(regCalls[r]) + 1
          /\ LET call == regCalls'[r][Len(regCalls'[r])]
             IN  /\ call.op = "delete_attendee"
                 /\ C24_Ids(RowsOf(r)) \ C24_Ids(RowsOf(r)') = {call.arg}
    /\ regResponse[r].status = 200 =>
          C24_Ids(RowsOf(r)) \subseteq C24_Ids(RowsOf(r)')
    /\ regCalls'[r] # regCalls[r] =>
          \A q \in RegReqs \ {r} :
              /\ RowsOf(q)' = RowsOf(q)
              /\ ImagesOf(q)' = ImagesOf(q)

C24_RowsDeletedOnlyByOwnRollback ==
    [][\A r \in RegReqs : C24_OwnRollbackOnly(r)]_vars

C24_Witness ==
    \E r \in RegReqs, q \in RegReqs :
        /\ r # q
        /\ CommitFailure(r)
        /\ Len(created_attendees[r]) >= 1
        /\ RowsOf(r) = {}
        /\ regResponse[q].status = 200
        /\ Cardinality(RowsOf(q)) = attendee[q].ticket_quantity
        /\ Cardinality(ImagesOf(q)) = attendee[q].ticket_quantity

\* C25: after a ticket row is inserted, no operation other than the check-in
\* transition modifies any of its fields: a row that changes is checked in
\* afterwards and keeps every field but is_checked_in and checked_in_at.
C25_OnlyCheckinModifiesRows ==
    [][\A a \in attendees : \A b \in attendees' :
          (b.id = a.id /\ b # a) =>
              b = [a EXCEPT !.is_checked_in = TRUE,
                            !.checked_in_at = b.checked_in_at]]_vars

\* C26: a check-in confirmation e-mail is scheduled exactly when a check-in
\* request returns success=true, in the step that persisted the update, and
\* the outcome of that e-mail never changes the check-in result or the
\* checked-in state.
C26_ScheduledWithSuccess(c) ==
    /\ background_tasks[c] <=> ciResponse[c].success
    /\ background_tasks'[c] <=> ciResponse'[c].success
    /\ (background_tasks'[c] /\ ~background_tasks[c]) =>
          /\ ciPc[c] = "update" /\ ciPc'[c] = "done"
          /\ \E a \in attendees' :
                /\ a.qr_code_id = qr_id[c]
                /\ a.is_checked_in
                /\ a.checked_in_at = ciResponse'[c].checked_in_at
    /\ checkin_confirmation'[c] # checkin_confirmation[c] =>
          /\ background_tasks[c]
          /\ ciResponse' = ciResponse
          /\ ciPc' = ciPc
          /\ attendees' = attendees

C26_ConfirmationFollowsSuccess ==
    [][\A c \in CheckinReqs : C26_ScheduledWithSuccess(c)]_vars

C26_Witness ==
    \E c \in CheckinReqs :
        /\ checkin_confirmation[c] = "failed"
        /\ ciResponse[c].status = 200
        /\ ciResponse[c].success
        /\ \E a \in attendees : a.qr_code_id = qr_id[c] /\ a.is_checked_in

\* C28: a check-in returns success=true only if the update persisted
\* is_checked_in=true for that code: when the update fails or matches no row
\* the caller receives a 500, no success=true is returned and no confirmation
\* e-mail is scheduled.
C28_Persisted(c) ==
    \E a \in attendees' :
        /\ a.qr_code_id = qr_id[c]
        /\ a.is_checked_in
        /\ a.checked_in_at = clock

C28_UpdateStep(c) ==
    (ciPc[c] = "update" /\ ciPc'[c] = "done") =>
        /\ ciResponse'[c].success =>
              /\ ciResponse'[c].status = 200
              /\ C28_Persisted(c)
              /\ ciResponse'[c].checked_in_at = clock
        /\ ~C28_Persisted(c) =>
              /\ ciResponse'[c].status = 500
              /\ ~ciResponse'[c].success
              /\ ~background_tasks'[c]
              /\ attendees' = attendees
        /\ (\A a \in attendees : a.qr_code_id # qr_id[c]) =>
              ciResponse'[c].status = 500

C28_SuccessOnlyIfPersisted ==
    [][\A c \in CheckinReqs :
          /\ C28_UpdateStep(c)
          /\ ciResponse'[c].success => (ciResponse[c].success \/ ciPc[c] = "update")]_vars

C28_Witness ==
    \E c \in CheckinReqs :
        /\ ciResponse[c].status = 500
        /\ ciPc[c] = "done"
        /\ ~background_tasks[c]
        /\ qr_id[c] # NoCode
        /\ \A a \in attendees : a.qr_code_id # qr_id[c]

\* C27: the tiers are read once per register request: all rows of one
\* registration carry the same per-ticket price, the price resolved from a
\* tier that was active and matched the quantity and the food option at the
\* moment of that read (its price plus the surcharge of the payment method),
\* whatever an administrator creates, updates or deletes in the meantime.
C27_ReadOnce(r) ==
    /\ (regPc[r] = "idle" /\ regPc'[r] = "prepare") =>
          /\ tier_data'[r] \in ticket_pricing
          /\ tier_data'[r].is_active
          /\ tier_data'[r].event_id = DefaultEvent
          /\ TierMatches(tier_data'[r], attendee'[r].ticket_quantity,
                         attendee'[r].food_option)
          /\ price_per_ticket'[r] =
                 tier_data'[r].price_per_ticket + Surcharge(attendee'[r].payment_mode)
    /\ regPc[r] # "idle" =>
          /\ tier_data'[r] = tier_data[r]
          /\ price_per_ticket'[r] = price_per_ticket[r]
    /\ \A a \in RowsOf(r)' : a.total_price = price_per_ticket'[r]
    /\ \A i \in DOMAIN attendee_records'[r] :
          attendee_records'[r][i].total_price = price_per_ticket'[r]

C29_StatsAreConsistent ==
    statsPc = "done" =>
        /\ stats.total_checked_in <= stats.total_registered
        /\ stats.checked_in_percentage \in 0 .. 100

\* C30: a volunteer application changes status only from PENDING (approve
\* and reject are refused for an application already processed), and in every
\* state where no approve request is in progress an application is APPROVED
\* only if a user account was created for its e-mail: when the creation of
\* the account fails during approve, the application is PENDING again.
C30_ApproveInProgress ==
    \E q \in ReviewReqs :
        /\ application[q].kind = "approve"
        /\ revPc[q] \in {"insert", "rollback"}

C30_ApprovedHasAccount ==
    ~C30_ApproveInProgress =>
        \A i \in AppIds :
            volunteer_applications[i].status = "approved" =>
                \E u \in users : u.email = volunteer_applications[i].email

C30_ProcessedFromPending ==
    \A i \in AppIds :
        (/\ volunteer_applications'[i].status # volunteer_applications[i].status
         /\ volunteer_applications'[i].status # "pending") =>
            volunteer_applications[i].status = "pending"

C30_ApplicationStatus ==
    /\ []C30_ApprovedHasAccount
    /\ [][C30_ProcessedFromPending]_vars

====
